---------------------------- MODULE Spec2Model ----------------------------
(***************************************************************************)
(* Model of the GTM Storage client (package client of src/examples/main.go, *)
(* lines 228-592): request construction, the single HTTP exchange of each  *)
(* operation, and the interpretation of the response.                      *)
(*                                                                         *)
(* One caller drives one client.  A call builds its request, hands it to   *)
(* the transport (pc = "inflight") and, when the transport answers, runs   *)
(* the rest of the operation to its return (pc = "done").  The server and  *)
(* the transport are the environment: the status, the headers, the body    *)
(* and the point at which reading the body fails are chosen freely.        *)
(*                                                                         *)
(* Texts whose characters matter (object keys in a listing, prefixes,      *)
(* ETags, numbers) are sequences of one-character strings; other texts are *)
(* strings, concatenated with \o.                                          *)
(***************************************************************************)
EXTENDS Integers, Sequences, FiniteSets, TLC

(***************************************************************************)
(* Bounds of the model.                                                    *)
(***************************************************************************)
MaxEntries == 2      \* objects in a bucket listing
MaxRange == 1        \* start and end of a range read lie in -1..MaxRange
MaxLines == 2        \* lines of an upload response body

(***************************************************************************)
(* Program constants.                                                      *)
(***************************************************************************)
StatusOK == 200
StatusPartialContent == 206

NoFail == 0 - 1      \* the failure point of a stream that never fails
Statuses == {StatusOK, StatusPartialContent, 404, 500}

VARIABLES
    baseURL,     \* Client.baseURL
    apiKey,      \* Client.apiKey
    ctx,         \* the caller's context: "live" | "canceled"
    pc,          \* "idle" | "buffering" | "fetching" | "inflight" | "done"
    op,          \* the operation being executed
    args,        \* its arguments
    reqs,        \* the requests handed to a transport during this call
    resps,       \* the responses received during this call
    streams,     \* streams[i]: how far resps[i].body was read, and whether closed
    ret          \* what the call returned

vars == <<baseURL, apiKey, ctx, pc, op, args, reqs, resps, streams, ret>>

(***************************************************************************)
(* Text helpers.                                                           *)
(***************************************************************************)
RECURSIVE Join(_)
\* The string made of the pieces of s, in order (fmt.Sprintf with %s verbs).
Join(s) == IF s = <<>> THEN "" ELSE Head(s) \o Join(Tail(s))

Last(s) == s[Len(s)]

\* s begins with p (strings.HasPrefix on character sequences).
HasPrefix(s, p) == Len(p) <= Len(s) /\ SubSeq(s, 1, Len(p)) = p

DigitChar == <<"0", "1", "2", "3", "4", "5", "6", "7", "8", "9">>

RECURSIVE FormatNat(_)
FormatNat(n) == IF n < 10 THEN DigitChar[n + 1]
                ELSE FormatNat(n \div 10) \o DigitChar[(n % 10) + 1]

\* fmt's %d verb.
FormatInt(n) == IF n < 0 THEN "-" \o FormatNat(0 - n) ELSE FormatNat(n)

(***************************************************************************)
(* Requests.                                                               *)
(***************************************************************************)
NoHeaders == {}

\* http.Header.Set: one value per name.
SetHeader(h, name, value) == {p \in h : p[1] # name} \cup {<<name, value>>}

HasHeader(req, name) == \E p \in req.header : p[1] = name

HeaderValue(req, name) == (CHOOSE p \in req.header : p[1] = name)[2]

\* Path segments url.Parse rejects (an invalid percent escape).
InvalidSegments == {"b%zz"}

\* The index of the first "?" among the pieces of a URL, 0 without one.
QueryMark(urlParts) ==
    IF \E i \in 1..Len(urlParts) : urlParts[i] = "?"
    THEN CHOOSE i \in 1..Len(urlParts) :
             urlParts[i] = "?" /\ \A j \in 1..(i - 1) : urlParts[j] # "?"
    ELSE 0

\* url.Parse of the concatenated pieces: the path, and the raw query after
\* the first "?" (kept as pieces, one per escaped character).
ParseURL(urlParts) ==
    LET q == QueryMark(urlParts)
    IN  IF q = 0 THEN [path |-> Join(urlParts), rawQuery |-> <<>>]
        ELSE [path |-> Join(SubSeq(urlParts, 1, q - 1)),
              rawQuery |-> SubSeq(urlParts, q + 1, Len(urlParts))]

\* http.NewRequestWithContext: fails when the URL does not parse.
NewRequest(method, urlParts, body) ==
    IF \E i \in 1..Len(urlParts) : urlParts[i] \in InvalidSegments
    THEN [err |-> TRUE]
    ELSE [err |-> FALSE, via |-> "client", method |-> method,
          url |-> ParseURL(urlParts), header |-> NoHeaders, body |-> body]

\* addAuth without the X-API-Key header.
addAuthBearerOnly(req, key) ==
    IF key # ""
    THEN [req EXCEPT !.header = SetHeader(@, "Authorization", "Bearer " \o key)]
    ELSE req

addAuth(req, key) ==
    IF key # ""
    THEN [req EXCEPT !.header =
             SetHeader(SetHeader(@, "Authorization", "Bearer " \o key),
                       "X-API-Key", key)]
    ELSE req

(***************************************************************************)
(* Responses and their body streams.                                       *)
(***************************************************************************)
\* The part of a body its stream delivers before it fails.
Delivered(resp) ==
    IF resp.failAt = NoFail THEN resp.body ELSE SubSeq(resp.body, 1, resp.failAt)

\* io.ReadAll(resp.Body)
ReadAll(resp) == [data |-> Delivered(resp), err |-> resp.failAt # NoFail]

\* A body stream: how much of the body was read, whether a read met the end
\* of the body or an error, and whether the stream was closed.
FreshStream == [pos |-> 0, eof |-> FALSE, err |-> FALSE, closed |-> FALSE]

\* The stream after io.ReadAll.
ReadStream(resp, st) ==
    [st EXCEPT !.pos = Len(Delivered(resp)), !.eof = (resp.failAt = NoFail),
               !.err = (resp.failAt # NoFail)]

CloseStream(st) == [st EXCEPT !.closed = TRUE]

FailPoints(body) == {NoFail} \cup (0..Len(body))

\* A text body is a sequence of lines, a line a sequence of pieces.
PlainBodies == {<<>>, <<<<"message">>>>, <<<<"first", " ", "line">>, <<"second">>>>}

EmptyHeader == [ETag |-> <<>>, ContentType |-> "", LastModified |-> ""]

\* Every response with status in ss and body in bodies, failing at any point.
Responses(ss, bodies) ==
    UNION {{[status |-> s, header |-> EmptyHeader, ContentLength |-> Len(b),
             body |-> b, failAt |-> f] : s \in ss, f \in FailPoints(b)} :
           b \in bodies}

PlainResponses == Responses(Statuses, PlainBodies)

Buckets == {"b1", "b%zz"}
ObjectKeys == {"k1"}
ApiKeys == {"", "s3cret"}

OperationError(name, resp) ==
    [kind |-> "err", class |-> "operation", op |-> name,
     status |-> resp.status, body |-> ReadAll(resp).data]

BuildError == [kind |-> "err", class |-> "build"]
TransportError == [kind |-> "err", class |-> "transport"]
Success == [kind |-> "ok"]
NoReturn == [kind |-> "none"]

(***************************************************************************)
(* Construction.                                                           *)
(***************************************************************************)
Init ==
    /\ baseURL = "http://h"
    /\ apiKey \in ApiKeys
    /\ ctx = "live"
    /\ pc = "idle"
    /\ op = "none"
    /\ args = <<>>
    /\ reqs = <<>>
    /\ resps = <<>>
    /\ streams = <<>>
    /\ ret = NoReturn

\* The call starts: request req goes to the transport, or building it failed.
Send(name, a, req) ==
    /\ pc = "idle"
    /\ op' = name
    /\ args' = a
    /\ resps' = <<>>
    /\ streams' = <<>>
    /\ IF req.err
       THEN /\ pc' = "done"
            /\ reqs' = <<>>
            /\ ret' = BuildError
       ELSE /\ pc' = "inflight"
            /\ reqs' = <<req>>
            /\ ret' = NoReturn
    /\ UNCHANGED <<baseURL, apiKey, ctx>>

\* The transport answers the pending request of operation name with resp and
\* the operation runs to its return, leaving the body stream as st.  The
\* request was built with ctx: once ctx is canceled Do returns no response.
Receive(name, resp, st, result) ==
    /\ pc = "inflight"
    /\ ctx = "live"
    /\ op \in {name, name \o "FromFile"}
    /\ resps' = Append(resps, resp)
    /\ streams' = Append(streams, st)
    /\ ret' = result
    /\ pc' = "done"
    /\ UNCHANGED <<baseURL, apiKey, ctx, op, args, reqs>>

(***************************************************************************)
(* MakeBucket                                                              *)
(***************************************************************************)
MakeBucketCall(bucketName) ==
    Send("MakeBucket", [bucket |-> bucketName],
         LET req == NewRequest("POST", <<baseURL, "/api/", bucketName>>, <<>>)
         IN  IF req.err THEN req ELSE addAuth(req, apiKey))

\* A status-only operation after Do returned resp: the deferred Close runs on
\* every path, the body is read on the failure path alone.
StatusOnly(name, resp) ==
    IF resp.status # StatusOK
    THEN Receive(name, resp, CloseStream(ReadStream(resp, FreshStream)),
                 OperationError(name, resp))
    ELSE Receive(name, resp, CloseStream(FreshStream), Success)

MakeBucketDone(resp) == StatusOnly("MakeBucket", resp)

DeleteBucketCall(bucketName) ==
    Send("DeleteBucket", [bucket |-> bucketName],
         LET req == NewRequest("DELETE", <<baseURL, "/api/", bucketName>>, <<>>)
         IN  IF req.err THEN req ELSE addAuth(req, apiKey))

DeleteBucketDone(resp) == StatusOnly("DeleteBucket", resp)

DeleteObjectCall(bucketName, objectKey) ==
    Send("DeleteObject", [bucket |-> bucketName, key |-> objectKey],
         LET req == NewRequest("DELETE",
                               <<baseURL, "/api/", bucketName, "/", objectKey>>,
                               <<>>)
         IN  IF req.err THEN req ELSE addAuth(req, apiKey))

DeleteObjectDone(resp) == StatusOnly("DeleteObject", resp)

(***************************************************************************)
(* GetObject, GetObjectRange                                               *)
(***************************************************************************)
\* The body handed to the caller: stream i of this call, open and unread.
BodyResult(i) == [kind |-> "ok", stream |-> i]

\* The request GetObject builds.
GetObjectRequest(bucketName, objectKey) ==
    NewRequest("GET", <<baseURL, "/api/", bucketName, "/", objectKey>>, <<>>)

GetObjectCall(bucketName, objectKey) ==
    Send("GetObject", [bucket |-> bucketName, key |-> objectKey],
         GetObjectRequest(bucketName, objectKey))

\* A byte-stream operation after Do returned resp: the body is read and
\* closed on the failure path and returned untouched otherwise.
Streamed(name, accepted, resp) ==
    IF resp.status \notin accepted
    THEN Receive(name, resp, CloseStream(ReadStream(resp, FreshStream)),
                 OperationError(name, resp))
    ELSE Receive(name, resp, FreshStream, BodyResult(Len(resps) + 1))

GetObjectDone(resp) == Streamed("GetObject", {StatusOK}, resp)

RangeHeader(start, end) == "bytes=" \o FormatInt(start) \o "-" \o FormatInt(end)

\* The range condition looking at start alone.
SetsRangeStartOnly(start, end) == start > 0

SetsRange(start, end) == start > 0 \/ end > 0

GetObjectRangeCall(bucketName, objectKey, start, end) ==
    Send("GetObjectRange",
         [bucket |-> bucketName, key |-> objectKey, start |-> start, end |-> end],
         LET req == NewRequest("GET",
                               <<baseURL, "/api/", bucketName, "/", objectKey>>,
                               <<>>)
         IN  IF req.err THEN req
             ELSE IF SetsRange(start, end)
                  THEN [req EXCEPT !.header =
                           SetHeader(@, "Range", RangeHeader(start, end))]
                  ELSE req)

\* GetObjectRange accepting 200 alone.
GetObjectRangeDoneOnly200(resp) == Streamed("GetObjectRange", {StatusOK}, resp)

GetObjectRangeDone(resp) ==
    Streamed("GetObjectRange", {StatusOK, StatusPartialContent}, resp)

(***************************************************************************)
(* HeadObject                                                              *)
(***************************************************************************)
ZeroTime == "0001-01-01T00:00:00Z"

\* The texts http.TimeFormat accepts, with the instants they denote.
HTTPTimes == ("Mon, 02 Jan 2006 15:04:05 GMT" :> "2006-01-02T15:04:05Z")

\* time.Parse(http.TimeFormat, v): the zero time and an error when v does
\* not match the layout.
ParseHTTPTime(v) ==
    IF v \in DOMAIN HTTPTimes
    THEN [time |-> HTTPTimes[v], err |-> FALSE]
    ELSE [time |-> ZeroTime, err |-> TRUE]

Quote == "\""

RECURSIVE TrimLeft(_, _)
TrimLeft(s, c) == IF s # <<>> /\ Head(s) = c THEN TrimLeft(Tail(s), c) ELSE s

RECURSIVE TrimRight(_, _)
TrimRight(s, c) ==
    IF s # <<>> /\ Last(s) = c THEN TrimRight(SubSeq(s, 1, Len(s) - 1), c) ELSE s

\* strings.Trim(s, c) for a one-character cutset.
Trim(s, c) == TrimRight(TrimLeft(s, c), c)

HeadObjectCall(bucketName, objectKey) ==
    Send("HeadObject", [bucket |-> bucketName, key |-> objectKey],
         NewRequest("HEAD", <<baseURL, "/api/", bucketName, "/", objectKey>>, <<>>))

\* The ObjectInfo HeadObject builds from the headers of resp.
HeadInfo(objectKey, resp) ==
    [Key |-> objectKey,
     Name |-> "",
     ContentType |-> resp.header.ContentType,
     LastModified |-> ParseHTTPTime(resp.header.LastModified).time,
     ETag |-> Trim(resp.header.ETag, Quote),
     Size |-> resp.ContentLength]

HeadObjectDone(resp) ==
    IF resp.status # StatusOK
    THEN Receive("HeadObject", resp, CloseStream(ReadStream(resp, FreshStream)),
                 OperationError("HeadObject", resp))
    ELSE Receive("HeadObject", resp, CloseStream(FreshStream),
                 [kind |-> "ok", info |-> HeadInfo(args.key, resp)])

ETags == {<<>>, <<"e", "1">>, <<Quote, "e", "1", Quote>>}

\* What a server may answer to HEAD: no body; the Content-Length header may
\* be missing, and resp.ContentLength is then -1.
HeadResponses ==
    {[status |-> s, body |-> <<>>, failAt |-> NoFail, ContentLength |-> n,
      header |-> [ETag |-> e, ContentType |-> ct, LastModified |-> lm]] :
        s \in {StatusOK, 404}, n \in {0 - 1, 0, 13}, e \in ETags,
        ct \in {"", "text/plain"},
        lm \in {"", "yesterday", "Mon, 02 Jan 2006 15:04:05 GMT"}}

(***************************************************************************)
(* PutObject                                                               *)
(***************************************************************************)
\* The two labels of the upload response (Chinese in the source: "preview
\* address:" and "thumbnail address:"), written here in ASCII.
PreviewLabel == "preview-url:"
ThumbnailLabel == "thumbnail-url:"
Space == " "

\* A line of text is a sequence of pieces: labels, words and white space.
\* strings.Contains(line, label), no word holding a label.
Contains(line, label) == \E i \in 1..Len(line) : line[i] = label

RECURSIVE FieldsFrom(_, _, _)
FieldsFrom(line, cur, out) ==
    IF line = <<>>
    THEN IF cur = "" THEN out ELSE Append(out, cur)
    ELSE IF Head(line) = Space
         THEN FieldsFrom(Tail(line), "", IF cur = "" THEN out ELSE Append(out, cur))
         ELSE FieldsFrom(Tail(line), cur \o Head(line), out)

\* strings.Fields(line): the maximal runs without white space.
Fields(line) == FieldsFrom(line, "", <<>>)

\* One turn of the loop over the lines of the body.
ScanLine(result, line) ==
    LET parts == Fields(line)
        r1 == IF Contains(line, PreviewLabel) /\ Len(parts) > 1
              THEN [result EXCEPT !.PreviewURL = Last(parts)]
              ELSE result
    IN  IF Contains(line, ThumbnailLabel) /\ Len(parts) > 1
        THEN [r1 EXCEPT !.ThumbnailURL = Last(parts)]
        ELSE r1

RECURSIVE ScanLines(_, _)
ScanLines(result, lines) ==
    IF lines = <<>> THEN result
    ELSE ScanLines(ScanLine(result, Head(lines)), Tail(lines))

\* The UploadResult built from a 200 response whose body was read as lines:
\* the lines are scanned only when the body holds the preview label.
ParseUpload(objectKey, resp, lines) ==
    LET result == [kind |-> "ok", Key |-> objectKey, ETag |-> resp.header.ETag,
                   PreviewURL |-> "", ThumbnailURL |-> ""]
    IN  IF \E i \in 1..Len(lines) : Contains(lines[i], PreviewLabel)
        THEN ScanLines(result, lines)
        ELSE result

CopyError == [kind |-> "err", class |-> "copy"]
ReadError == [kind |-> "err", class |-> "read"]
OpenError == [kind |-> "err", class |-> "open"]

\* What io.Copy reads from the caller's reader.
Readers == {[data |-> <<"Hello">>, failAt |-> NoFail],
            [data |-> <<"Hello">>, failAt |-> 0],
            [data |-> <<>>, failAt |-> NoFail]}

Filenames == {"test.txt"}

\* The PUT request of an upload: the whole reader buffered as the one file
\* part of a multipart form.
PutRequest(bucketName, objectKey, data, filename) ==
    LET req == NewRequest("PUT", <<baseURL, "/api/", bucketName, "/", objectKey>>,
                          [field |-> "file", filename |-> filename, data |-> data])
    IN  IF req.err THEN req
        ELSE addAuth([req EXCEPT !.header =
                         SetHeader(@, "Content-Type",
                                   "multipart/form-data; boundary=B")],
                     apiKey)

\* The call starts: io.Copy reads the caller's reader into the form.
PutObjectCall(bucketName, objectKey, reader, filename) ==
    /\ pc = "idle"
    /\ pc' = "buffering"
    /\ op' = "PutObject"
    /\ args' = [bucket |-> bucketName, key |-> objectKey, reader |-> reader,
                filename |-> filename]
    /\ reqs' = <<>>
    /\ resps' = <<>>
    /\ streams' = <<>>
    /\ ret' = NoReturn
    /\ UNCHANGED <<baseURL, apiKey, ctx>>

\* io.Copy returns, whatever ctx is: the reader failed, or it is buffered
\* whole and the request is built and handed to the transport.
PutObjectBuffered ==
    /\ pc = "buffering"
    /\ LET req == PutRequest(args.bucket, args.key, args.reader.data,
                             args.filename)
       IN  IF args.reader.failAt # NoFail
           THEN pc' = "done" /\ reqs' = <<>> /\ ret' = CopyError
           ELSE IF req.err
                THEN pc' = "done" /\ reqs' = <<>> /\ ret' = BuildError
                ELSE pc' = "inflight" /\ reqs' = <<req>> /\ ret' = NoReturn
    /\ UNCHANGED <<baseURL, apiKey, ctx, op, args, resps, streams>>

PutObjectDone(resp) ==
    IF resp.status # StatusOK
    THEN Receive("PutObject", resp, CloseStream(ReadStream(resp, FreshStream)),
                 OperationError("PutObject", resp))
    ELSE Receive("PutObject", resp, CloseStream(ReadStream(resp, FreshStream)),
                 IF ReadAll(resp).err THEN ReadError
                 ELSE ParseUpload(args.key, resp, ReadAll(resp).data))

UploadLines ==
    {<<"upload", Space, "ok">>,
     <<PreviewLabel, Space, "http://h/p">>,
     <<ThumbnailLabel, Space, "http://h/t">>,
     <<PreviewLabel, "http://h/p">>,
     <<PreviewLabel, Space, "http://h/p", Space, ThumbnailLabel, Space, "http://h/t">>}

RECURSIVE SeqsUpTo(_, _)
\* The sequences over S of length at most n.
SeqsUpTo(S, n) ==
    IF n = 0 THEN {<<>>}
    ELSE LET shorter == SeqsUpTo(S, n - 1)
         IN  shorter \cup {Append(q, x) : q \in shorter, x \in S}

UploadBodies == SeqsUpTo(UploadLines, MaxLines)

UploadETags == {<<>>, <<Quote, "e", "1", Quote>>}

UploadResponses ==
    {r \in PlainResponses : r.status # StatusOK}
    \cup UNION {{[status |-> StatusOK, body |-> b, failAt |-> f,
                  ContentLength |-> Len(b),
                  header |-> [EmptyHeader EXCEPT !.ETag = e]] :
                    f \in FailPoints(b), e \in UploadETags} : b \in UploadBodies}

(***************************************************************************)
(* ListObjects                                                             *)
(***************************************************************************)
\* An XML document is a sequence of tokens: start tags, end tags and
\* character data (a sequence of pieces of text).
StartTag(name) == [t |-> "start", name |-> name, v |-> <<>>]
EndTag(name) == [t |-> "end", name |-> name, v |-> <<>>]
CharData(v) == [t |-> "text", name |-> "", v |-> v]

RECURSIVE MatchEnd(_, _, _)
\* The index of the end tag that closes the oldest element of stack, reading
\* body from token i.  xml.Decoder's syntax errors: 0 when the document ends
\* first, -j when the end tag at j does not match the open element.
MatchEnd(body, i, stack) ==
    IF i > Len(body) THEN 0
    ELSE IF body[i].t = "start"
         THEN MatchEnd(body, i + 1, Append(stack, body[i].name))
    ELSE IF body[i].t = "text"
         THEN MatchEnd(body, i + 1, stack)
    ELSE IF body[i].name # Last(stack) THEN 0 - i
    ELSE IF Len(stack) = 1 THEN i
    ELSE MatchEnd(body, i + 1, SubSeq(stack, 1, Len(stack) - 1))

RECURSIVE RootStart(_, _)
\* Decode skips what precedes the first start tag: its index, 0 when the
\* document ends first, -j when the end tag at j comes first.
RootStart(body, i) ==
    IF i > Len(body) THEN 0
    ELSE IF body[i].t = "start" THEN i
    ELSE IF body[i].t = "end" THEN 0 - i
    ELSE RootStart(body, i + 1)

RECURSIVE Children(_, _, _)
\* The child elements between tokens i and e of a well-nested element, each
\* with the places of its start and end tags.
Children(body, i, e) ==
    IF i >= e THEN <<>>
    ELSE IF body[i].t = "start"
         THEN LET j == MatchEnd(body, i + 1, <<body[i].name>>)
              IN  <<[name |-> body[i].name, from |-> i, to |-> j]>>
                  \o Children(body, j + 1, e)
         ELSE Children(body, i + 1, e)

RECURSIVE TextBetween(_, _, _)
\* The character data directly inside an element (nested elements skipped).
TextBetween(body, i, e) ==
    IF i >= e THEN <<>>
    ELSE IF body[i].t = "start"
         THEN TextBetween(body, MatchEnd(body, i + 1, <<body[i].name>>) + 1, e)
         ELSE body[i].v \o TextBetween(body, i + 1, e)

ElementText(body, c) == TextBetween(body, c.from + 1, c.to)

DigitValue == ("0" :> 0) @@ ("1" :> 1) @@ ("2" :> 2) @@ ("3" :> 3) @@ ("4" :> 4)
              @@ ("5" :> 5) @@ ("6" :> 6) @@ ("7" :> 7) @@ ("8" :> 8) @@ ("9" :> 9)

RECURSIVE ParseNat(_, _)
ParseNat(chars, acc) ==
    IF chars = <<>> THEN acc
    ELSE ParseNat(Tail(chars), 10 * acc + DigitValue[Head(chars)])

IsDigits(chars) ==
    chars # <<>> /\ \A i \in 1..Len(chars) : chars[i] \in DOMAIN DigitValue

\* How the decoder fills an int64 field: 0 for empty character data, else
\* strconv.ParseInt.
ParseInt(chars) ==
    IF chars = <<>> THEN [n |-> 0, err |-> FALSE]
    ELSE IF Head(chars) = "-" /\ IsDigits(Tail(chars))
         THEN [n |-> 0 - ParseNat(Tail(chars), 0), err |-> FALSE]
    ELSE IF IsDigits(chars) THEN [n |-> ParseNat(chars, 0), err |-> FALSE]
    ELSE [n |-> 0, err |-> TRUE]

\* The texts time.Time's UnmarshalText accepts (RFC 3339).
RFC3339Times == {<<"2006-01-02T15:04:05Z">>}

ParseRFC3339(text) ==
    IF text \in RFC3339Times THEN [time |-> Join(text), err |-> FALSE]
    ELSE [time |-> ZeroTime, err |-> TRUE]

ZeroInfo == [Key |-> <<>>, Name |-> <<>>, ContentType |-> <<>>,
             LastModified |-> ZeroTime, ETag |-> <<>>, Size |-> 0, err |-> FALSE]

\* One child element of <Contents> stored into the ObjectInfo.
SetField(info, body, c) ==
    LET text == ElementText(body, c)
    IN  CASE c.name = "Key" -> [info EXCEPT !.Key = text]
          [] c.name = "Name" -> [info EXCEPT !.Name = text]
          [] c.name = "ContentType" -> [info EXCEPT !.ContentType = text]
          [] c.name = "ETag" -> [info EXCEPT !.ETag = text]
          [] c.name = "Size" ->
                [info EXCEPT !.Size = ParseInt(text).n,
                             !.err = @ \/ ParseInt(text).err]
          [] c.name = "LastModified" ->
                [info EXCEPT !.LastModified = ParseRFC3339(text).time,
                             !.err = @ \/ ParseRFC3339(text).err]
          [] OTHER -> info

RECURSIVE SetFields(_, _, _)
SetFields(info, body, cs) ==
    IF cs = <<>> THEN info
    ELSE SetFields(SetField(info, body, Head(cs)), body, Tail(cs))

\* The ObjectInfo decoded from the <Contents> element c.
DecodeObjectInfo(body, c) ==
    SetFields(ZeroInfo, body, Children(body, c.from + 1, c.to))

RECURSIVE DecodeContents(_, _)
\* The children of the root named Contents, decoded in document order.
DecodeContents(body, cs) ==
    IF cs = <<>> THEN <<>>
    ELSE IF Head(cs).name = "Contents"
         THEN <<DecodeObjectInfo(body, Head(cs))>> \o DecodeContents(body, Tail(cs))
         ELSE DecodeContents(body, Tail(cs))

\* xml.NewDecoder(body).Decode(&result): the first element of the document,
\* whatever its name, is decoded up to its end tag and nothing after it is
\* read.  pos is the last token read; ended says that the decoder asked for
\* more than the body holds.
Decode(body) ==
    LET r == RootStart(body, 1)
        e == IF r <= 0 THEN r ELSE MatchEnd(body, r + 1, <<body[r].name>>)
        contents == DecodeContents(body, Children(body, r + 1, e))
    IN  IF e = 0
        THEN [err |-> TRUE, ended |-> TRUE, pos |-> Len(body), Contents |-> <<>>]
        ELSE IF e < 0
        THEN [err |-> TRUE, ended |-> FALSE, pos |-> 0 - e, Contents |-> <<>>]
        ELSE IF \E i \in 1..Len(contents) : contents[i].err
        THEN [err |-> TRUE, ended |-> FALSE, pos |-> e, Contents |-> <<>>]
        ELSE [err |-> FALSE, ended |-> FALSE, pos |-> e,
              Contents |-> [i \in 1..Len(contents) |->
                               [f \in DOMAIN contents[i] \ {"err"} |-> contents[i][f]]]]

DecodeError == [kind |-> "err", class |-> "decode"]

EscapeChar == ("/" :> "%2F") @@ (" " :> "+")

\* url.QueryEscape, character by character.
QueryEscape(chars) ==
    [i \in 1..Len(chars) |->
        IF chars[i] \in DOMAIN EscapeChar THEN EscapeChar[chars[i]] ELSE chars[i]]

Prefixes == {<<>>, <<"p", "/">>, <<"d">>, <<"p", " ">>}

\* ListObjects never sending the prefix parameter.
ListObjectsCallNoPrefix(bucketName, prefix) ==
    Send("ListObjects", [bucket |-> bucketName, prefix |-> prefix],
         NewRequest("GET", <<baseURL, "/api/", bucketName>>, <<>>))

ListObjectsCall(bucketName, prefix) ==
    Send("ListObjects", [bucket |-> bucketName, prefix |-> prefix],
         NewRequest("GET",
                    <<baseURL, "/api/", bucketName>>
                    \o (IF prefix # <<>>
                        THEN <<"?", "prefix", "=">> \o QueryEscape(prefix)
                        ELSE <<>>),
                    <<>>))

ListObjectsDone(resp) ==
    IF resp.status # StatusOK
    THEN Receive("ListObjects", resp, CloseStream(ReadStream(resp, FreshStream)),
                 OperationError("ListObjects", resp))
    ELSE LET d == Decode(Delivered(resp))
             st == [pos |-> d.pos, closed |-> TRUE,
                    eof |-> d.ended /\ resp.failAt = NoFail,
                    err |-> d.ended /\ resp.failAt # NoFail]
         IN  Receive("ListObjects", resp, st,
                     IF d.err THEN DecodeError
                     ELSE [kind |-> "ok", Contents |-> d.Contents])

(***************************************************************************)
(* The storage server, as far as a listing goes: it keeps the objects of a *)
(* bucket in an order of its own, filters them by the prefix parameter it  *)
(* receives and renders the XML listing document.  What reaches the client *)
(* may be cut short or have more content after the root element.           *)
(***************************************************************************)
UnescapeChar == ("%2F" :> "/") @@ ("+" :> " ")

\* url.QueryUnescape, piece by piece.
QueryUnescape(pieces) ==
    [i \in 1..Len(pieces) |->
        IF pieces[i] \in DOMAIN UnescapeChar THEN UnescapeChar[pieces[i]]
        ELSE pieces[i]]

\* The prefix parameter the server finds in the request, empty without one.
ServedPrefix(req) ==
    LET q == req.url.rawQuery
    IN  IF Len(q) >= 2 /\ q[1] = "prefix" /\ q[2] = "="
        THEN QueryUnescape(SubSeq(q, 3, Len(q)))
        ELSE <<>>

StoredObjects ==
    {[Key |-> <<"p", "/", "a">>, ETag |-> <<Quote, "e", "1", Quote>>,
      Size |-> <<"1", "3">>, LastModified |-> <<"2006-01-02T15:04:05Z">>],
     [Key |-> <<"p", "/", "b">>, ETag |-> <<"e", "2">>,
      Size |-> <<"0">>, LastModified |-> <<"2006-01-02T15:04:05Z">>],
     [Key |-> <<"d", "c">>, ETag |-> <<"e", "3">>,
      Size |-> <<"7">>, LastModified |-> <<"2006-01-02T15:04:05Z">>],
     [Key |-> <<"d", "d">>, ETag |-> <<"e", "4">>,
      Size |-> <<"7", "k">>, LastModified |-> <<"2006-01-02T15:04:05Z">>]}

\* The contents a bucket may have: distinct objects in the server's order.
Stores ==
    {st \in SeqsUpTo(StoredObjects, MaxEntries) :
        \A i, j \in 1..Len(st) : i # j => st[i] # st[j]}

RECURSIVE SelectPrefix(_, _)
SelectPrefix(store, prefix) ==
    IF store = <<>> THEN <<>>
    ELSE IF HasPrefix(Head(store).Key, prefix)
         THEN <<Head(store)>> \o SelectPrefix(Tail(store), prefix)
         ELSE SelectPrefix(Tail(store), prefix)

Element(name, text) == <<StartTag(name), CharData(text), EndTag(name)>>

RenderObject(o) ==
    <<StartTag("Contents")>> \o Element("Key", o.Key)
    \o Element("LastModified", o.LastModified) \o Element("ETag", o.ETag)
    \o Element("Size", o.Size) \o <<EndTag("Contents")>>

RECURSIVE RenderObjects(_)
RenderObjects(objects) ==
    IF objects = <<>> THEN <<>>
    ELSE RenderObject(Head(objects)) \o RenderObjects(Tail(objects))

\* The listing document of the objects sent.
RenderListing(bucketName, prefix, objects) ==
    <<StartTag("ListBucketResult")>> \o Element("Name", <<bucketName>>)
    \o Element("Prefix", prefix) \o RenderObjects(objects)
    \o <<EndTag("ListBucketResult")>>

\* Content that may follow the root element.
Trailers ==
    {<<CharData(<<"junk">>)>>,
     <<EndTag("ListBucketResult")>>,
     <<StartTag("ListBucketResult"), StartTag("Contents")>>
        \o Element("Key", <<"z">>)
        \o <<EndTag("Contents"), EndTag("ListBucketResult")>>}

ListedBucket == "b1"

ListingResponse(status, body, failAt, store, sent) ==
    [status |-> status, header |-> EmptyHeader, ContentLength |-> 0 - 1,
     body |-> body, failAt |-> failAt, store |-> store, sent |-> sent]

\* What the server may answer to the listing request req.
ListingResponses(req) ==
    UNION {LET sent == SelectPrefix(store, ServedPrefix(req))
               doc == RenderListing(ListedBucket, ServedPrefix(req), sent)
           IN  {ListingResponse(StatusOK, doc, f, store, sent) : f \in {NoFail, 0}}
               \cup {ListingResponse(StatusOK, SubSeq(doc, 1, k), NoFail, store, sent) :
                        k \in 0..(Len(doc) - 1)}
               \cup {ListingResponse(StatusOK, doc \o t, NoFail, store, sent) :
                        t \in Trailers}
           : store \in Stores}
    \cup {ListingResponse(s, b, f, <<>>, <<>>) :
            s \in {404, 500}, b \in {<<>>, <<CharData(<<"message">>)>>},
            f \in {NoFail, 0}}

ListObjectsAnswered ==
    /\ pc = "inflight"
    /\ op = "ListObjects"
    /\ \E r \in ListingResponses(Last(reqs)) : ListObjectsDone(r)

(***************************************************************************)
(* PutObjectFromFile                                                       *)
(***************************************************************************)
\* The paths a caller passes, with filepath.Base of each.  A path without
\* an http scheme is one http.DefaultClient cannot request.
Base == ("/tmp/a.txt" :> "a.txt") @@ ("http://files/f.txt" :> "f.txt")
FilePaths == DOMAIN Base
Requestable == {"http://files/f.txt"}

\* http.DefaultClient.Head(filePath): the source is requested over HTTP.
PutObjectFromFileCall(bucketName, objectKey, filePath) ==
    /\ pc = "idle"
    /\ op' = "PutObjectFromFile"
    /\ args' = [bucket |-> bucketName, key |-> objectKey, path |-> filePath,
                filename |-> Base[filePath]]
    /\ resps' = <<>>
    /\ streams' = <<>>
    /\ IF filePath \in Requestable
       THEN /\ pc' = "fetching"
            /\ reqs' = <<[err |-> FALSE, via |-> "default", method |-> "HEAD",
                          url |-> ParseURL(<<filePath>>), header |-> NoHeaders,
                          body |-> <<>>]>>
            /\ ret' = NoReturn
       ELSE /\ pc' = "done"
            /\ reqs' = <<>>
            /\ ret' = OpenError
    /\ UNCHANGED <<baseURL, apiKey, ctx>>

\* Head fails: the call returns its error.
HeadFails ==
    /\ pc = "fetching"
    /\ pc' = "done"
    /\ ret' = OpenError
    /\ UNCHANGED <<baseURL, apiKey, ctx, op, args, reqs, resps, streams>>

\* Head answers file, whatever its status: PutObject runs with file.Body as
\* its reader, which io.Copy reads to its end and nobody closes.
PutObjectFromFileFetched(file) ==
    /\ pc = "fetching"
    /\ resps' = <<file>>
    /\ streams' = <<ReadStream(file, FreshStream)>>
    /\ LET req == PutRequest(args.bucket, args.key, ReadAll(file).data,
                             args.filename)
       IN  IF ReadAll(file).err
           THEN pc' = "done" /\ reqs' = reqs /\ ret' = CopyError
           ELSE IF req.err
                THEN pc' = "done" /\ reqs' = reqs /\ ret' = BuildError
                ELSE pc' = "inflight" /\ reqs' = Append(reqs, req)
                     /\ ret' = NoReturn
    /\ UNCHANGED <<baseURL, apiKey, ctx, op, args>>

\* What a server may answer to the HEAD of the source.
FileResponses ==
    {[status |-> s, header |-> EmptyHeader, ContentLength |-> n, body |-> <<>>,
      failAt |-> f] : s \in {StatusOK, 404}, n \in {0 - 1, 13}, f \in {NoFail, 0}}

(***************************************************************************)
(* GetObjectURL                                                            *)
(***************************************************************************)
GetObjectURL(bucketName, objectKey) ==
    /\ pc = "idle"
    /\ pc' = "done"
    /\ op' = "GetObjectURL"
    /\ args' = [bucket |-> bucketName, key |-> objectKey]
    /\ reqs' = <<>>
    /\ resps' = <<>>
    /\ streams' = <<>>
    /\ ret' = [kind |-> "ok",
               url |-> Join(<<baseURL, "/api/", bucketName, "/", objectKey>>)]
    /\ UNCHANGED <<baseURL, apiKey, ctx>>

\* httpClient.Do returns an error: no response, the call fails.
DoFails ==
    /\ pc = "inflight"
    /\ pc' = "done"
    /\ ret' = TransportError
    /\ UNCHANGED <<baseURL, apiKey, ctx, op, args, reqs, resps, streams>>

\* The caller's context is canceled, or its deadline passes, while the call
\* is pending.
Cancel ==
    /\ pc \in {"buffering", "fetching", "inflight"}
    /\ ctx = "live"
    /\ ctx' = "canceled"
    /\ UNCHANGED <<baseURL, apiKey, pc, op, args, reqs, resps, streams, ret>>

\* Do returns the context's error for a request whose ctx is canceled.
Abort ==
    /\ ctx = "canceled"
    /\ DoFails

\* The caller takes the result; the client is ready for the next call, which
\* comes with a context of its own.
Return ==
    /\ pc = "done"
    /\ pc' = "idle"
    /\ ctx' = "live"
    /\ op' = "none"
    /\ args' = <<>>
    /\ reqs' = <<>>
    /\ resps' = <<>>
    /\ streams' = <<>>
    /\ ret' = NoReturn
    /\ UNCHANGED <<baseURL, apiKey>>

Ranges == (0 - 1)..MaxRange

Next ==
    \/ \E b \in Buckets : MakeBucketCall(b)
    \/ \E r \in PlainResponses : MakeBucketDone(r)
    \/ \E b \in Buckets : DeleteBucketCall(b)
    \/ \E r \in PlainResponses : DeleteBucketDone(r)
    \/ \E b \in Buckets, k \in ObjectKeys : DeleteObjectCall(b, k)
    \/ \E r \in PlainResponses : DeleteObjectDone(r)
    \/ \E b \in Buckets, k \in ObjectKeys : GetObjectCall(b, k)
    \/ \E r \in PlainResponses : GetObjectDone(r)
    \/ \E b \in Buckets, k \in ObjectKeys, s \in Ranges, e \in Ranges :
           GetObjectRangeCall(b, k, s, e)
    \/ \E r \in PlainResponses : GetObjectRangeDone(r)
    \/ \E b \in Buckets, k \in ObjectKeys : HeadObjectCall(b, k)
    \/ \E r \in HeadResponses : HeadObjectDone(r)
    \/ \E b \in Buckets, k \in ObjectKeys, rd \in Readers, f \in Filenames :
           PutObjectCall(b, k, rd, f)
    \/ PutObjectBuffered
    \/ \E r \in UploadResponses : PutObjectDone(r)
    \/ \E b \in Buckets, k \in ObjectKeys, f \in FilePaths :
           PutObjectFromFileCall(b, k, f)
    \/ HeadFails
    \/ \E r \in FileResponses : PutObjectFromFileFetched(r)
    \/ \E b \in Buckets, k \in ObjectKeys : GetObjectURL(b, k)
    \/ \E b \in Buckets, p \in Prefixes : ListObjectsCall(b, p)
    \/ ListObjectsAnswered
    \/ DoFails
    \/ Cancel
    \/ Return

Spec == Init /\ [][Next]_vars

\* The transport watches the context of each request it holds: the request
\* of a canceled context is aborted.  Nothing makes a server answer or a
\* reader return.
FairSpec == Spec /\ WF_vars(Abort)

(***************************************************************************)
(* Properties.                                                             *)
(***************************************************************************)
EightOps == {"MakeBucket", "DeleteBucket", "PutObject", "GetObject",
             "GetObjectRange", "DeleteObject", "HeadObject", "ListObjects"}

AuthOps == {"MakeBucket", "DeleteBucket", "PutObject", "DeleteObject"}

\* The status codes the interface table gives each operation as success.
AcceptedStatuses(name) ==
    IF name = "GetObjectRange" THEN {200, 206} ELSE {200}

IsOperationError(r) == r.kind = "err" /\ r.class = "operation"

\* One of the eight operations returned after its request was answered.
Answered == pc = "done" /\ op \in EightOps /\ resps # <<>>

\* C1: for each of the eight operations and every response received, the
\* call fails with an OperationError exactly when the status is outside the
\* operation's accepted set ({200}; {200, 206} for GetObjectRange), and the
\* error carries that status and the body text the response delivered - the
\* full body when the response is complete.
C1_OperationErrorIffRejected ==
    Answered =>
        LET r == Last(resps)
        IN  /\ IsOperationError(ret) <=> r.status \notin AcceptedStatuses(op)
            /\ IsOperationError(ret) =>
                  /\ ret.status = r.status
                  /\ ret.body = Delivered(r)
                  /\ r.failAt = NoFail => ret.body = r.body

C1_Witness ==
    /\ Answered
    /\ op = "GetObjectRange"
    /\ Last(resps).status = 404
    /\ Last(resps).failAt = NoFail
    /\ Len(Last(resps).body) = 2
    /\ IsOperationError(ret)
    /\ ret.body = Last(resps).body

\* Nothing the stream can deliver is left unread.
Drained(i) == streams[i].pos = Len(Delivered(resps[i]))

StreamedSuccess == op \in {"GetObject", "GetObjectRange"} /\ ret.kind = "ok"

\* C2: on every path on which a response was received, the body has been
\* read to its end and closed when the operation returns, except on the
\* success paths of GetObject and GetObjectRange, which return it open and
\* unread.
C2_BodyDrainedAndClosed ==
    Answered =>
        IF StreamedSuccess
        THEN ~streams[Len(streams)].closed /\ streams[Len(streams)].pos = 0
        ELSE streams[Len(streams)].closed /\ Drained(Len(streams))

\* C3: a call performs at most one HTTP exchange, and whatever it returns as
\* a result comes after exactly one completed exchange - none for
\* GetObjectURL alone.
C3_OneExchangePerCall ==
    /\ Len(reqs) <= 1
    /\ (pc = "done" /\ ret.kind = "ok") =>
          Len(resps) = (IF op = "GetObjectURL" THEN 0 ELSE 1)

\* Decimal numerals, written out.
Numeral == ((0 - 3) :> "-3") @@ ((0 - 2) :> "-2") @@ ((0 - 1) :> "-1")
           @@ (0 :> "0") @@ (1 :> "1") @@ (2 :> "2") @@ (3 :> "3")

\* C4: GetObjectRange sends the header Range: bytes=<start>-<end> exactly
\* when start > 0 or end > 0; with start = 0 and end = 0 it sends none and
\* its request is the one GetObject sends for the same bucket and key.
C4_RangeHeader ==
    (op = "GetObjectRange" /\ reqs # <<>>) =>
        LET req == reqs[1]
        IN  /\ HasHeader(req, "Range") <=> (args.start > 0 \/ args.end > 0)
            /\ HasHeader(req, "Range") =>
                  HeaderValue(req, "Range")
                      = "bytes=" \o Numeral[args.start] \o "-" \o Numeral[args.end]
            /\ (args.start = 0 /\ args.end = 0) =>
                  req = GetObjectRequest(args.bucket, args.key)

C4_Witness ==
    /\ op = "GetObjectRange"
    /\ pc = "inflight"
    /\ args.start = 0
    /\ args.end = 1
    /\ HasHeader(reqs[1], "Range")
    /\ HeaderValue(reqs[1], "Range") = "bytes=0-1"

HasAuth(req) == HasHeader(req, "Authorization") /\ HasHeader(req, "X-API-Key")
HasNoAuth(req) == ~HasHeader(req, "Authorization") /\ ~HasHeader(req, "X-API-Key")

\* C5: a request of MakeBucket, DeleteBucket, PutObject or DeleteObject
\* carries Authorization: Bearer <apiKey> and X-API-Key: <apiKey> exactly
\* when the API key is non-empty and neither when it is empty; no request
\* carries one of the two without the other; requests of GetObject,
\* GetObjectRange, HeadObject and ListObjects carry neither.
C5_AuthHeaders ==
    \A i \in 1..Len(reqs) :
        LET req == reqs[i]
        IN  /\ HasAuth(req) \/ HasNoAuth(req)
            /\ op \in AuthOps =>
                  IF apiKey # ""
                  THEN /\ HasAuth(req)
                       /\ HeaderValue(req, "Authorization") = "Bearer " \o apiKey
                       /\ HeaderValue(req, "X-API-Key") = apiKey
                  ELSE HasNoAuth(req)
            /\ op \in EightOps \ AuthOps => HasNoAuth(req)

C5_Witness ==
    /\ op = "DeleteObject"
    /\ pc = "inflight"
    /\ apiKey # ""
    /\ HasAuth(reqs[1])

\* A line that carries a label: the label and, after it, a value.
Carries(line, label) == Contains(line, label) /\ Len(Fields(line)) > 1

UploadSucceeded ==
    pc = "done" /\ op = "PutObject" /\ resps # <<>> /\ ret.kind = "ok"

\* The field of the result that belongs to a label of the body lines: the
\* value of a line carrying the label when there is one, empty otherwise.
FieldFollows(lines, label, value) ==
    IF \E i \in 1..Len(lines) : Carries(lines[i], label)
    THEN \E i \in 1..Len(lines) :
             Carries(lines[i], label) /\ value = Last(Fields(lines[i]))
    ELSE value = ""

\* C6: a successful PutObject returns the supplied key and the ETag header
\* of the response, and fills PreviewURL and ThumbnailURL independently,
\* each from the body line carrying its label when there is such a line and
\* empty otherwise.
C6_UploadResultFields ==
    UploadSucceeded =>
        LET lines == Last(resps).body
        IN  /\ ret.Key = args.key
            /\ ret.ETag = Last(resps).header.ETag
            /\ FieldFollows(lines, PreviewLabel, ret.PreviewURL)
            /\ FieldFollows(lines, ThumbnailLabel, ret.ThumbnailURL)

\* The data-model invariant of ObjectMetadata.
ValidMetadata(info) ==
    /\ info.Size >= 0
    /\ info.ETag # <<>> => Head(info.ETag) # Quote /\ Last(info.ETag) # Quote

\* C7: every ObjectInfo returned by HeadObject or by ListObjects has a size
\* >= 0 and an ETag without surrounding double quotes.
C7_MetadataInvariant ==
    /\ (pc = "done" /\ op = "HeadObject" /\ ret.kind = "ok") =>
          ValidMetadata(ret.info)
    /\ (pc = "done" /\ op = "ListObjects" /\ ret.kind = "ok") =>
          \A i \in 1..Len(ret.Contents) : ValidMetadata(ret.Contents[i])

Keys(objects) == [i \in 1..Len(objects) |-> objects[i].Key]

ListingSucceeded ==
    pc = "done" /\ op = "ListObjects" /\ resps # <<>> /\ ret.kind = "ok"

\* C8: ListObjects sends the prefix parameter exactly when the prefix is not
\* empty, and the server receives the prefix given; on success it returns
\* the keys of the server's listing in the server's order, all of them
\* beginning with the prefix, and every key of the bucket when the prefix
\* is empty.
C8_PrefixListing ==
    /\ (op = "ListObjects" /\ reqs # <<>>) =>
          /\ reqs[1].url.rawQuery # <<>> <=> args.prefix # <<>>
          /\ ServedPrefix(reqs[1]) = args.prefix
    /\ ListingSucceeded =>
          /\ Keys(ret.Contents) = Keys(Last(resps).sent)
          /\ \A i \in 1..Len(ret.Contents) :
                HasPrefix(ret.Contents[i].Key, args.prefix)
          /\ args.prefix = <<>> => Keys(ret.Contents) = Keys(Last(resps).store)

C8_Witness ==
    /\ ListingSucceeded
    /\ args.prefix = <<"p", "/">>
    /\ Len(Last(resps).store) = 2
    /\ Len(ret.Contents) = 1
    /\ ret.Contents[1].Key = <<"p", "/", "a">>

\* The body of a response is a listing document, whole and with nothing
\* after it, whose sizes are numbers.
WellFormedListing(resp) ==
    /\ Delivered(resp) = RenderListing(ListedBucket, ServedPrefix(reqs[1]), resp.sent)
    /\ \A i \in 1..Len(resp.sent) : ~ParseInt(resp.sent[i].Size).err

\* C9: with status 200, ListObjects fails with a DecodeError, and returns no
\* listing, whenever the body is not a well-formed listing document (empty,
\* cut short, or with content after the root element), and returns the
\* entries of the document whenever it is one.
C9_MalformedListingRejected ==
    (pc = "done" /\ op = "ListObjects" /\ resps # <<>>
        /\ Last(resps).status = StatusOK) =>
        IF WellFormedListing(Last(resps))
        THEN ret.kind = "ok" /\ Keys(ret.Contents) = Keys(Last(resps).sent)
        ELSE ret = DecodeError

\* A step of the finished call failed: the URL did not parse, the caller's
\* reader failed, a read of a body failed, or the Last-Modified header sent
\* did not parse.
StepFailed ==
    \/ op \in EightOps /\ args.bucket \in InvalidSegments
    \/ op = "PutObject" /\ args.reader.failAt # NoFail
    \/ \E i \in 1..Len(streams) : streams[i].err
    \/ /\ op = "HeadObject" /\ resps # <<>> /\ Last(resps).status = StatusOK
       /\ Last(resps).header.LastModified # ""
       /\ Last(resps).header.LastModified \notin DOMAIN HTTPTimes

\* C10: no error inside an operation is swallowed: when a step of the
\* operation failed, the operation returns an error, not success or a
\* result built from a default value.
C10_NoErrorSwallowed ==
    (pc = "done" /\ StepFailed) => ret.kind = "err"

\* The operation has been called and has not returned.
Pending == pc \in {"buffering", "fetching", "inflight"}

\* A step of an operation whose token has fired completes no exchange and
\* returns no success: the only result such an operation comes to is an error.
AbortedStep ==
    (ctx = "canceled" /\ Pending) =>
        /\ resps' = resps
        /\ pc' = "done" => ret'.kind = "err"

\* C11: cancellation is carried end-to-end.  For every operation that takes a
\* token, PutObject's buffering of its reader and PutObjectFromFile's fetch of
\* its source included: once the caller's token has fired while the operation
\* is pending, no exchange of the operation completes any more and no success
\* is returned, and the operation is not left outstanding: it returns, with
\* the transport's error.
C11_CancellationEndToEnd ==
    /\ [][AbortedStep]_vars
    /\ (ctx = "canceled" /\ Pending) ~> (pc = "done" /\ ret = TransportError)

=============================================================================
